---- MODULE Spec2Model ----
(***************************************************************************)
(* Model of the finconvert backend (src/server.js, the converged variant   *)
(* that starts at line 30): the POST /convert request lifecycle, the       *)
(* converter child process with its deadline timer, and the metadata       *)
(* extraction of the 'close' handler.                                      *)
(*                                                                         *)
(* Text is a sequence of code units.  A code unit is a one-character       *)
(* string for ASCII, and a named token for the few non-ASCII code units    *)
(* the code handles: "a_ogonek" (U+0105), "n_acute" (U+0144), "s_acute"    *)
(* (U+015B), "z_acute" (U+017A), "l_stroke" (U+0142), "U0301" and "U0328"  *)
(* (combining marks), "CAL" (the calendar emoji), "LF", "CR", "TAB".       *)
(***************************************************************************)
EXTENDS Integers, Sequences, FiniteSets, TLC

(***************************************************************************)
(* Bounds of the model                                                     *)
(***************************************************************************)
NumReq == 2
MaxOutChunks == 1
MaxErrChunks == 2
MaxTime == 1
MaxMetaChunks == 2
MaxBankChunks == 2
MaxOutLines == 3
MaxNameLen == 3

(***************************************************************************)
(* Characters and generic string helpers                                   *)
(***************************************************************************)
Digits == <<"0", "1", "2", "3", "4", "5", "6", "7", "8", "9">>

IsDigit(c) == c \in {"0", "1", "2", "3", "4", "5", "6", "7", "8", "9"}

DigitVal(c) == (CHOOSE i \in 1..10 : Digits[i] = c) - 1

\* JavaScript \s restricted to the code units of the model
IsSpace(c) == c \in {" ", "TAB", "LF", "CR"}

IsLineEnd(c) == c \in {"LF", "CR"}

Lower == <<"a","b","c","d","e","f","g","h","i","j","k","l","m",
           "n","o","p","q","r","s","t","u","v","w","x","y","z">>

Upper == <<"A","B","C","D","E","F","G","H","I","J","K","L","M",
           "N","O","P","Q","R","S","T","U","V","W","X","Y","Z">>

IsLower(c) == c \in {Lower[i] : i \in 1..26}

IsUpper(c) == c \in {Upper[i] : i \in 1..26}

ToLowerChar(c) == IF IsUpper(c) THEN Lower[CHOOSE i \in 1..26 : Upper[i] = c] ELSE c

ToUpperChar(c) == IF IsLower(c) THEN Upper[CHOOSE i \in 1..26 : Lower[i] = c] ELSE c

ToLowerCase(s) == [i \in 1..Len(s) |-> ToLowerChar(s[i])]

\* s has the literal lit at position p
HasAt(s, p, lit) ==
    /\ p >= 1
    /\ p + Len(lit) - 1 <= Len(s)
    /\ \A i \in 1..Len(lit) : s[p + i - 1] = lit[i]

\* s has n digits at position p
DigitsAt(s, p, n) ==
    /\ p >= 1
    /\ p + n - 1 <= Len(s)
    /\ \A i \in 0..(n - 1) : IsDigit(s[p + i])

Min(S) == CHOOSE x \in S : \A y \in S : x <= y

Max(S) == CHOOSE x \in S : \A y \in S : x >= y

\* parseInt(s, 10) of a string of decimal digits
RECURSIVE parseInt(_)
parseInt(s) ==
    IF Len(s) = 0 THEN 0
    ELSE 10 * parseInt(SubSeq(s, 1, Len(s) - 1)) + DigitVal(s[Len(s)])

\* String.prototype.trim
TrimTo(s, keep) == IF keep = {} THEN <<>> ELSE SubSeq(s, Min(keep), Max(keep))

Trim(s) == TrimTo(s, {i \in 1..Len(s) : ~IsSpace(s[i])})

RECURSIVE Concat(_)
Concat(ss) == IF Len(ss) = 0 THEN <<>> ELSE Head(ss) \o Concat(Tail(ss))

\* the text of a JavaScript string literal, one code unit per element
Nieznany == <<"N","i","e","z","n","a","n","y">>

Undefined == <<"u","n","d","e","f","i","n","e","d">>

(***************************************************************************)
(* monthNamesPL, sanitizeFilename, formatOutputFilename                    *)
(***************************************************************************)
monthNamesPL ==
    << <<"S","t","y","c","z","e","n_acute">>,
       <<"L","u","t","y">>,
       <<"M","a","r","z","e","c">>,
       <<"K","w","i","e","c","i","e","n_acute">>,
       <<"M","a","j">>,
       <<"C","z","e","r","w","i","e","c">>,
       <<"L","i","p","i","e","c">>,
       <<"S","i","e","r","p","i","e","n_acute">>,
       <<"W","r","z","e","s","i","e","n_acute">>,
       <<"P","a","z_acute","d","z","i","e","r","n","i","k">>,
       <<"L","i","s","t","o","p","a","d">>,
       <<"G","r","u","d","z","i","e","n_acute">> >>

\* `${monthNamesPL[n - 1]}`: an index outside the array reads undefined, which
\* the template literal prints as the text "undefined"
MonthNameText(n) ==
    IF n - 1 \in 0..(Len(monthNamesPL) - 1) THEN monthNamesPL[n] ELSE Undefined

\* String.prototype.normalize('NFD') of one code unit
NFDChar(c) ==
    CASE c = "a_ogonek" -> <<"a", "U0328">>
      [] c = "n_acute"  -> <<"n", "U0301">>
      [] c = "s_acute"  -> <<"s", "U0301">>
      [] c = "z_acute"  -> <<"z", "U0301">>
      [] OTHER          -> <<c>>

NFD(s) == Concat([i \in 1..Len(s) |-> NFDChar(s[i])])

\* the range U+0300..U+036F of combining marks, as far as the model has them
IsCombining(c) == c \in {"U0301", "U0328"}

\* the class [a-zA-Z0-9_\-\.]
IsSafeChar(c) == IsLower(c) \/ IsUpper(c) \/ IsDigit(c) \/ c \in {"_", "-", "."}

\* .replace(/\s+/g, '_'): every maximal run of whitespace becomes one underscore
ReplaceSpaceRuns(s) ==
    Concat([i \in 1..Len(s) |->
              IF ~IsSpace(s[i]) THEN <<s[i]>>
              ELSE IF i > 1 /\ IsSpace(s[i - 1]) THEN <<>>
              ELSE <<"_">>])

NotCombining(c) == ~IsCombining(c)

\* s without its first code unit outside the class, if it has one
RemoveFirstUnsafe(s) ==
    IF \A i \in 1..Len(s) : IsSafeChar(s[i]) THEN s
    ELSE SubSeq(s, 1, Min({i \in 1..Len(s) : ~IsSafeChar(s[i])}) - 1)
             \o SubSeq(s, Min({i \in 1..Len(s) : ~IsSafeChar(s[i])}) + 1, Len(s))

\* sanitizeFilename with the last replace lacking the g flag
sanitizeFilenameOnce(name) ==
    RemoveFirstUnsafe(ReplaceSpaceRuns(SelectSeq(NFD(name), NotCombining)))

\* sanitizeFilename without the last replace
sanitizeFilenameNoFilter(name) ==
    ReplaceSpaceRuns(SelectSeq(NFD(name), NotCombining))

sanitizeFilename(name) ==
    SelectSeq(ReplaceSpaceRuns(SelectSeq(NFD(name), NotCombining)), IsSafeChar)

\* path.extname of a name without directory separators
ExtFrom(p, dots) ==
    IF dots = {} THEN <<>>
    ELSE IF Max(dots) = 1 THEN <<>>
    ELSE IF p = <<".", ".">> THEN <<>>
    ELSE SubSeq(p, Max(dots), Len(p))

ExtName(p) == ExtFrom(p, {i \in 1..Len(p) : p[i] = "."})

\* path.basename(p, path.extname(p)) of a name without directory separators
BaseName(p) == SubSeq(p, 1, Len(p) - Len(ExtName(p)))

TwoDigits(n) == <<Digits[(n \div 10) + 1], Digits[(n % 10) + 1]>>

\* new Date().toISOString().slice(0,19).replace(/[:T]/g,'-') at second t of the
\* minute the model's clock runs in
Timestamp(t) ==
    <<"2","0","2","4","-","0","1","-","0","1","-","1","2","-","0","0","-">>
        \o TwoDigits(t)

formatOutputFilename(originalName, t) ==
    sanitizeFilename(BaseName(originalName)) \o <<"_">> \o Timestamp(t)
        \o <<".","m","t","9","4","0">>

(***************************************************************************)
(* Statement month: the monthPatterns loop of the 'close' handler          *)
(***************************************************************************)
NoMatch == [pos |-> 0]

\* number of whitespace code units of s from position p on
WsRun(s, p) ==
    IF p > Len(s) THEN 0
    ELSE IF \A q \in p..Len(s) : IsSpace(s[q]) THEN Len(s) - p + 1
    ELSE Min({q \in p..Len(s) : ~IsSpace(s[q])}) - p

\* the group ([^\n\r]+) from position from, greedy: up to the line terminator
CaptureFrom(s, p, from, ends) ==
    [pos |-> p,
     text |-> SubSeq(s, from, IF ends = {} THEN Len(s) ELSE Min(ends) - 1)]

CaptureAmong(s, p, starts) ==
    IF starts = {} THEN NoMatch
    ELSE CaptureFrom(s, p, Max(starts),
                     {e \in Max(starts)..Len(s) : IsLineEnd(s[e])})

\* \s*([^\n\r]+) from position p: \s* is greedy and backtracks until the group
\* can take one code unit that is no line terminator
CaptureRest(s, p) ==
    CaptureAmong(s, p,
        {q \in p..(p + WsRun(s, p)) : q <= Len(s) /\ ~IsLineEnd(s[q])})

LitMiesiacWyciagu ==
    <<"M","i","e","s","i","a_ogonek","c"," ","w","y","c","i","a_ogonek","g","u",":">>

LitMiesiac == <<"M","i","e","s","i","a_ogonek","c",":">>

LitZaOkresOd == <<"Z","a"," ","o","k","r","e","s"," ","o","d"," ">>

\* monthPatterns[0] tried at position i, the marker found at position p
Rx0From(s, i, p) ==
    IF s[i] = "CAL" /\ HasAt(s, p, LitMiesiacWyciagu)
    THEN CaptureRest(s, p + Len(LitMiesiacWyciagu))
    ELSE NoMatch

Rx0At(s, i) == Rx0From(s, i, i + 1 + WsRun(s, i + 1))

\* monthPatterns[1] tried at position i
Rx1At(s, i) ==
    IF HasAt(s, i, LitMiesiac) THEN CaptureRest(s, i + Len(LitMiesiac)) ELSE NoMatch

\* monthPatterns[2], (\d{2})\.(\d{2})\.(\d{4}), tried at position i
Rx2At(s, i) ==
    /\ DigitsAt(s, i, 2) /\ HasAt(s, i + 2, <<".">>)
    /\ DigitsAt(s, i + 3, 2) /\ HasAt(s, i + 5, <<".">>)
    /\ DigitsAt(s, i + 6, 4)

\* monthPatterns[3], (\d{4})-(\d{2})-(\d{2}), tried at position i
Rx3At(s, i) ==
    /\ DigitsAt(s, i, 4) /\ HasAt(s, i + 4, <<"-">>)
    /\ DigitsAt(s, i + 5, 2) /\ HasAt(s, i + 7, <<"-">>)
    /\ DigitsAt(s, i + 8, 2)

\* monthPatterns[4], (\d{2})\/(\d{4}), tried at position i
Rx4At(s, i) ==
    DigitsAt(s, i, 2) /\ HasAt(s, i + 2, <<"/">>) /\ DigitsAt(s, i + 3, 4)

\* monthPatterns[5], Za okres od \d{2}\/(\d{2})\/(\d{4}), tried at position i
Rx5At(s, i) ==
    /\ HasAt(s, i, LitZaOkresOd)
    /\ DigitsAt(s, i + 12, 2) /\ HasAt(s, i + 14, <<"/">>)
    /\ DigitsAt(s, i + 15, 2) /\ HasAt(s, i + 17, <<"/">>)
    /\ DigitsAt(s, i + 18, 4)

\* MonthLabel without the -1 of the index
MonthLabelNoOffset(mm, yyyy) == MonthNameText(parseInt(mm) + 1) \o <<" ">> \o yyyy

\* `${monthNamesPL[parseInt(mm,10)-1]} ${yyyy}`
MonthLabel(mm, yyyy) == MonthNameText(parseInt(mm)) \o <<" ">> \o yyyy

\* whether the k-th pattern (k = 0..5) matches at position i
RxAt(k, s, i) ==
    CASE k = 0 -> Rx0At(s, i).pos # 0
      [] k = 1 -> Rx1At(s, i).pos # 0
      [] k = 2 -> Rx2At(s, i)
      [] k = 3 -> Rx3At(s, i)
      [] k = 4 -> Rx4At(s, i)
      [] k = 5 -> Rx5At(s, i)

\* the match of the k-th pattern at position i as [pos, num, label]: label is
\* what the loop's branch for that pattern assigns to statementMonth, num the
\* month number the pattern captured (-1 for the two marker patterns)
MatchAt(k, s, i) ==
    CASE k = 0 -> [pos |-> i, num |-> -1, label |-> Trim(Rx0At(s, i).text)]
      [] k = 1 -> [pos |-> i, num |-> -1, label |-> Trim(Rx1At(s, i).text)]
      [] k = 2 -> [pos |-> i, num |-> parseInt(SubSeq(s, i + 3, i + 4)),
                   label |-> MonthLabel(SubSeq(s, i + 3, i + 4), SubSeq(s, i + 6, i + 9))]
      [] k = 3 -> [pos |-> i, num |-> parseInt(SubSeq(s, i + 5, i + 6)),
                   label |-> MonthLabel(SubSeq(s, i + 5, i + 6), SubSeq(s, i, i + 3))]
      [] k = 4 -> [pos |-> i, num |-> parseInt(SubSeq(s, i, i + 1)),
                   label |-> MonthLabel(SubSeq(s, i, i + 1), SubSeq(s, i + 3, i + 6))]
      [] k = 5 -> [pos |-> i, num |-> parseInt(SubSeq(s, i + 15, i + 16)),
                   label |-> MonthLabel(SubSeq(s, i + 15, i + 16),
                                        SubSeq(s, i + 18, i + 21))]

LeftmostOf(k, s, hits) == IF hits = {} THEN NoMatch ELSE MatchAt(k, s, Min(hits))

\* stdoutData.match(monthPatterns[k]): the leftmost match
MonthMatch(k, s) == LeftmostOf(k, s, {i \in 1..Len(s) : RxAt(k, s, i)})

\* the order in which the loop tries the patterns
monthPatterns == <<0, 1, 2, 3, 4, 5>>

FirstOf(hit) == IF hit = {} THEN 0 ELSE Min(hit)

\* the pattern the loop breaks on: the first of monthPatterns that matches, as
\* an index into monthPatterns (0 when none matches)
WinningPattern(s) ==
    FirstOf({j \in 1..Len(monthPatterns) :
               \E i \in 1..Len(s) : RxAt(monthPatterns[j], s, i)})

\* what the winning pattern matched
WinningMatch(s, j) == IF j = 0 THEN NoMatch ELSE MonthMatch(monthPatterns[j], s)

LabelOf(m) == IF m.pos = 0 THEN Nieznany ELSE m.label

\* statementMonth after the loop
MonthFromStdout(s) == LabelOf(WinningMatch(s, WinningPattern(s)))

\* FilenameFallback without the test of statementMonth: the filename prefix
\* is taken whenever it is there
FilenameFirst(fromText, base) ==
    IF /\ DigitsAt(base, 1, 6)
       /\ parseInt(SubSeq(base, 5, 6)) >= 1
       /\ parseInt(SubSeq(base, 5, 6)) <= 12
    THEN monthNamesPL[parseInt(SubSeq(base, 5, 6))] \o <<" ">> \o SubSeq(base, 1, 4)
    ELSE fromText

\* the filename fallback, /^(\d{4})(\d{2})/ on the base name, taken only when
\* statementMonth is still 'Nieznany'
FilenameFallback(fromText, base) ==
    IF fromText # Nieznany THEN fromText
    ELSE IF /\ DigitsAt(base, 1, 6)
            /\ parseInt(SubSeq(base, 5, 6)) >= 1
            /\ parseInt(SubSeq(base, 5, 6)) <= 12
         THEN monthNamesPL[parseInt(SubSeq(base, 5, 6))] \o <<" ">> \o SubSeq(base, 1, 4)
    ELSE fromText

\* if (!statementMonth || statementMonth.length < 3) statementMonth = 'Nieznany'
ValidMonth(m) == IF Len(m) < 3 THEN Nieznany ELSE m

statementMonthOf(s, filename) ==
    ValidMonth(FilenameFallback(MonthFromStdout(s), BaseName(filename)))

(***************************************************************************)
(* Statement bank and number of transactions                               *)
(***************************************************************************)
Contains(s, lit) == \E i \in 1..Len(s) : HasAt(s, i, lit)

\* ContainsCI without the i flag
ContainsExact(s, lit) == Contains(s, lit)

\* /lit/i.test(s)
ContainsCI(s, lit) == Contains(ToLowerCase(s), ToLowerCase(lit))

LitPKOPPLPW == <<"P","K","O","P","P","L","P","W">>

LitPekao == <<"P","e","k","a","o">>

LitBankPolska ==
    <<"B","a","n","k"," ","P","o","l","s","k","a"," ","K","a","s","a"," ",
      "O","p","i","e","k","i">>

LitSantander == <<"S","a","n","t","a","n","d","e","r">>

LitMBank == <<"m","B","a","n","k">>

SecondBetween(s, first, later) ==
    SubSeq(s, first + 1, (IF later = {} THEN Len(s) + 1 ELSE Min(later)) - 1)

SecondAfter(s, us, first) == SecondBetween(s, first, {i \in us : i > first})

SecondIn(s, us) == SecondAfter(s, us, Min(us))

\* s.split('_')[1], defined when s holds an underscore
SecondToken(s) == SecondIn(s, {i \in 1..Len(s) : s[i] = "_"})

\* cand.charAt(0).toUpperCase() + cand.slice(1).toLowerCase()
TitleCase(cand) ==
    [i \in 1..Len(cand) |-> IF i = 1 THEN ToUpperChar(cand[i]) ELSE ToLowerChar(cand[i])]

\* the three tests of stdoutData against the known banks
KnownBank(s) ==
    IF \/ ContainsCI(s, LitPKOPPLPW)
       \/ ContainsCI(s, LitPekao)
       \/ ContainsCI(s, LitBankPolska) THEN LitPekao
    ELSE IF ContainsCI(s, LitSantander) THEN LitSantander
    ELSE IF ContainsCI(s, LitMBank) THEN LitMBank
    ELSE Nieznany

\* the fallback on the second '_' token of the sanitized filename
BankFallback(known, tokens) ==
    IF known # Nieznany THEN known
    ELSE IF \E i \in 1..Len(tokens) : tokens[i] = "_"
         THEN TitleCase(SecondToken(tokens))
    ELSE known

\* if (!statementBank || statementBank.length < 2) statementBank = 'Nieznany'
ValidBank(b) == IF Len(b) < 2 THEN Nieznany ELSE b

statementBankOf(s, filename) ==
    ValidBank(BankFallback(KnownBank(s), sanitizeFilename(filename)))

\* the first position from i on that holds neither a space nor a tab
SkipBlanks(text, i) ==
    IF \A q \in i..Len(text) : text[q] \in {" ", "TAB"} THEN Len(text) + 1
    ELSE Min({q \in i..Len(text) : text[q] \notin {" ", "TAB"}})

\* CountTag61 without the anchor ^: every :61: counts
CountTag61Unanchored(text) ==
    Cardinality({i \in 1..Len(text) : HasAt(text, i, <<":","6","1",":">>)})

\* the number of matches of /^[ \t]*:61:/gm in the text of the output file
CountTag61(text) ==
    Cardinality({i \in 1..Len(text) :
                   /\ i = 1 \/ IsLineEnd(text[i - 1])
                   /\ HasAt(text, SkipBlanks(text, i), <<":","6","1",":">>)})

(***************************************************************************)
(* Inputs: uploads, what the converter writes                              *)
(***************************************************************************)
ReqIds == 1..NumReq

NoFile == [present |-> FALSE]

MimePdf == "application/pdf"

\* originalname "202407_pekao.pdf"
NamePrefixed == <<"2","0","2","4","0","7","_","p","e","k","a","o",".","p","d","f">>

\* originalname "wyciag maj.pdf", its a with an ogonek
NameDiacritic == <<"w","y","c","i","a_ogonek","g"," ","m","a","j",".","p","d","f">>

\* originalname "note.txt"
NameText == <<"n","o","t","e",".","t","x","t">>

\* the multipart bodies a client sends
Uploads ==
    { NoFile,
      [present |-> TRUE, originalname |-> NameDiacritic, mimetype |-> MimePdf],
      [present |-> TRUE, originalname |-> NameText, mimetype |-> "text/plain"] }

\* "Za okres od 05/03/2024"
ChunkPeriod ==
    LitZaOkresOd \o <<"0","5","/","0","3","/","2","0","2","4">>

\* "01.13.2024"
ChunkBadDate == <<"0","1",".","1","3",".","2","0","2","4">>

\* what the converter prints on its standard output, one write at a time
StdoutChunks == {ChunkBadDate}

\* what the converter prints on its standard error
StderrChunks == { <<"E","r","r","LF">> }

\* what the converter leaves in the output file: two :61: lines among others
OutputTexts ==
    { <<":","2","0",":","LF",":","6","1",":","A","LF"," ",":","6","1",":","B","LF">> }

\* the converter wrote no output file
NoOutput == <<>>

(***************************************************************************)
(* Responses                                                               *)
(***************************************************************************)
UrlPrefix ==
    <<"https://finconvert-backend-1.onrender.com", "/", "o","u","t","p","u","t","s", "/">>

RespNoFile ==
    [status |-> 400, success |-> FALSE, message |-> "Nie przeslano pliku PDF."]

\* Express' default error handler, for the Error the fileFilter passes on: the
\* Error carries no status, so the answer is a 500 with no JSON body
RespFilterError ==
    [status |-> 500, html |-> "Error: Tylko pliki PDF sa obslugiwane."]

RespTimeout ==
    [status |-> 500, success |-> FALSE,
     message |-> "Przekroczono limit czasu konwersji (60s)."]

RespFailure(stderrText) ==
    [status |-> 500, success |-> FALSE, message |-> "Blad konwersji.",
     error |-> stderrText]

RespSuccess(out, outName, month, bank, n) ==
    [status |-> 200, success |-> TRUE, message |-> "Konwersja zakonczona sukcesem.",
     output |-> out, downloadUrl |-> UrlPrefix \o outName,
     statementMonth |-> month, statementBank |-> bank, numberOfTransactions |-> n]

(***************************************************************************)
(* State                                                                   *)
(***************************************************************************)
VARIABLES
    conv,           \* per request: the closure of the POST /convert handler
    res,            \* per request: the response object
    conversionLog,  \* the lines of conversion.log
    uploads,        \* the names of the files in the upload folder
    outputs,        \* the files of the output folder, as [name, text]
    now,            \* the wall clock, in seconds
    crashed         \* an exception reached the top of the event loop

vars == <<conv, res, conversionLog, uploads, outputs, now, crashed>>

\* conv[r].stage:   "idle" (not yet received), "uploaded" (multer is done and
\*                  calls the handler), "rejected", "spawned" (the handler
\*                  returned with the converter running)
\* conv[r].python:  "none", "running", "failed" (it could not be started),
\*                  "exited" (its 'close' is pending), "closed"
\* conv[r].timeout: "none", "armed", "fired", "cleared"
\* the code a 'close' event carries for a process a signal ended: null, which
\* no exit code equals
NullCode == 0 - 1

IdleConv ==
    [stage |-> "idle", file |-> NoFile, outputFilename |-> <<>>,
     python |-> "none", code |-> NullCode, killSent |-> FALSE, timeout |-> "none",
     stdoutPipe |-> <<>>, stderrPipe |-> <<>>, nOut |-> 0, nErr |-> 0,
     stderrWritten |-> <<>>,
     stdoutData |-> <<>>, stderrData |-> <<>>, extractions |-> 0]

\* res[r].json: every body a handler passed to res.json, in order
\* res[r].wire: what went to the client (headersSent iff non-empty)
FreshRes == [json |-> <<>>, wire |-> <<>>]

Init ==
    /\ conv = [r \in ReqIds |-> IdleConv]
    /\ res = [r \in ReqIds |-> FreshRes]
    /\ conversionLog = <<>>
    /\ uploads = {}
    /\ outputs = {}
    /\ now = 0
    /\ crashed = FALSE

\* res.status(..).json(body): the first call sends the body; a call after the
\* headers were sent throws ERR_HTTP_HEADERS_SENT
Respond(r, body) ==
    [res EXCEPT ![r] = [json |-> @.json \o <<body>>,
                        wire |-> IF @.wire = <<>> THEN <<body>> ELSE @.wire]]

headersSent(r) == res[r].wire # <<>>

(***************************************************************************)
(* POST /convert: multer, then the handler                                 *)
(***************************************************************************)
\* upload.single('file'): the fileFilter, then the disk storage under the
\* sanitized name.  A rejected file is not stored and the handler is not called.
Upload(r, u) ==
    /\ ~crashed
    /\ conv[r].stage = "idle"
    /\ \A q \in ReqIds : q < r => conv[q].stage # "idle"
    /\ IF u.present /\ u.mimetype # MimePdf
       THEN /\ conv' = [conv EXCEPT ![r].stage = "rejected"]
            /\ res' = Respond(r, RespFilterError)
            /\ UNCHANGED uploads
       ELSE IF u.present
       THEN /\ conv' = [conv EXCEPT ![r].stage = "uploaded",
                                    ![r].file = [present |-> TRUE,
                                                 originalname |-> u.originalname,
                                                 filename |-> sanitizeFilename(u.originalname)]]
            /\ uploads' = uploads \cup {sanitizeFilename(u.originalname)}
            /\ UNCHANGED res
       ELSE /\ conv' = [conv EXCEPT ![r].stage = "uploaded"]
            /\ UNCHANGED <<res, uploads>>
    /\ UNCHANGED <<conversionLog, outputs, now, crashed>>

\* the route handler up to its return: the missing-file answer, or the spawn of
\* the converter and the start of the deadline timer
Convert(r) ==
    /\ ~crashed
    /\ conv[r].stage = "uploaded"
    /\ IF ~conv[r].file.present
       THEN /\ conv' = [conv EXCEPT ![r].stage = "rejected"]
            /\ res' = Respond(r, RespNoFile)
       ELSE /\ conv' = [conv EXCEPT
                          ![r].stage = "spawned",
                          ![r].outputFilename =
                              formatOutputFilename(conv[r].file.filename, now),
                          ![r].python = "running",
                          ![r].timeout = "armed"]
            /\ UNCHANGED res
    /\ UNCHANGED <<conversionLog, uploads, outputs, now, crashed>>

\* the route handler when spawn cannot start the converter (no python on the
\* PATH): the handler runs to its end as in Convert, and the ChildProcess then
\* emits 'error' on the next tick; no listener is registered for it, so the
\* event is thrown to the top of the event loop
SpawnError(r) ==
    /\ ~crashed
    /\ conv[r].stage = "uploaded"
    /\ conv[r].file.present
    /\ conv' = [conv EXCEPT
                  ![r].stage = "spawned",
                  ![r].outputFilename =
                      formatOutputFilename(conv[r].file.filename, now),
                  ![r].python = "failed",
                  ![r].timeout = "armed"]
    /\ crashed' = TRUE
    /\ UNCHANGED <<res, conversionLog, uploads, outputs, now>>

(***************************************************************************)
(* The converter process (the model follows it while the server runs)      *)
(***************************************************************************)
ChildStdout(r, chunk) ==
    /\ ~crashed
    /\ conv[r].python = "running"
    /\ conv[r].nOut < MaxOutChunks
    /\ conv' = [conv EXCEPT ![r].stdoutPipe = Append(@, chunk), ![r].nOut = @ + 1]
    /\ UNCHANGED <<res, conversionLog, uploads, outputs, now, crashed>>

ChildStderr(r, chunk) ==
    /\ ~crashed
    /\ conv[r].python = "running"
    /\ conv[r].nErr < MaxErrChunks
    /\ conv' = [conv EXCEPT ![r].stderrPipe = Append(@, chunk), ![r].nErr = @ + 1,
                            ![r].stderrWritten = @ \o chunk]
    /\ UNCHANGED <<res, conversionLog, uploads, outputs, now, crashed>>

\* the output folder once the converter has written text at outputPath, or has
\* written nothing (NoOutput)
WriteOutput(name, text) ==
    IF text = NoOutput THEN outputs
    ELSE {f \in outputs : f.name # name} \cup {[name |-> name, text |-> text]}

\* the converter ends on its own with an exit code; by then it has written its
\* output file, if it writes one at all (a converter that is killed has written
\* none)
ChildExit(r, code, text) ==
    /\ ~crashed
    /\ conv[r].python = "running"
    /\ conv' = [conv EXCEPT ![r].python = "exited", ![r].code = code]
    /\ outputs' = WriteOutput(conv[r].outputFilename, text)
    /\ UNCHANGED <<res, conversionLog, uploads, now, crashed>>

(***************************************************************************)
(* The callbacks the handler registered                                    *)
(***************************************************************************)
\* python.stdout.on('data')
OnStdoutData(r) ==
    /\ ~crashed
    /\ conv[r].stdoutPipe # <<>>
    /\ conv' = [conv EXCEPT ![r].stdoutData = @ \o Head(conv[r].stdoutPipe),
                            ![r].stdoutPipe = Tail(@)]
    /\ UNCHANGED <<res, conversionLog, uploads, outputs, now, crashed>>

\* OnStderrData with = in place of +=: the last chunk replaces the buffer
OnStderrDataOverwrite(r) ==
    /\ ~crashed
    /\ conv[r].stderrPipe # <<>>
    /\ conv' = [conv EXCEPT ![r].stderrData = Head(conv[r].stderrPipe),
                            ![r].stderrPipe = Tail(@)]
    /\ UNCHANGED <<res, conversionLog, uploads, outputs, now, crashed>>

\* python.stderr.on('data')
OnStderrData(r) ==
    /\ ~crashed
    /\ conv[r].stderrPipe # <<>>
    /\ conv' = [conv EXCEPT ![r].stderrData = @ \o Head(conv[r].stderrPipe),
                            ![r].stderrPipe = Tail(@)]
    /\ UNCHANGED <<res, conversionLog, uploads, outputs, now, crashed>>

\* OnTimeout without python.kill('SIGKILL'): the timer only answers
OnTimeoutNoKill(r) ==
    /\ ~crashed
    /\ conv[r].timeout = "armed"
    /\ conv' = [conv EXCEPT ![r].timeout = "fired"]
    /\ res' = Respond(r, RespTimeout)
    /\ UNCHANGED <<conversionLog, uploads, outputs, now, crashed>>

\* the setTimeout callback: SIGKILL ends a running converter at once (its exit
\* code is then null); the timeout answer is sent
OnTimeout(r) ==
    /\ ~crashed
    /\ conv[r].timeout = "armed"
    /\ conv' = [conv EXCEPT
                  ![r].timeout = "fired",
                  ![r].killSent = TRUE,
                  ![r].python = IF @ = "running" THEN "exited" ELSE @,
                  ![r].code = IF conv[r].python = "running" THEN NullCode ELSE @]
    /\ res' = Respond(r, RespTimeout)
    /\ UNCHANGED <<conversionLog, uploads, outputs, now, crashed>>

\* fs.readFileSync(outputPath) and the count of :61: lines, 0 when the read throws
numberOfTransactionsOf(r) ==
    IF \A f \in outputs : f.name # conv[r].outputFilename THEN 0
    ELSE CountTag61((CHOOSE f \in outputs : f.name = conv[r].outputFilename).text)

\* Metadata with the extraction skipped unless the exit code is 0
MetadataOnSuccess(r) ==
    IF conv[r].code = 0
    THEN [month |-> statementMonthOf(conv[r].stdoutData, conv[r].file.filename),
          bank |-> statementBankOf(conv[r].stdoutData, conv[r].file.filename),
          transactions |-> numberOfTransactionsOf(r)]
    ELSE [month |-> Nieznany, bank |-> Nieznany, transactions |-> 0]

\* the metadata the 'close' handler extracts
Metadata(r) ==
    [month |-> statementMonthOf(conv[r].stdoutData, conv[r].file.filename),
     bank |-> statementBankOf(conv[r].stdoutData, conv[r].file.filename),
     transactions |-> numberOfTransactionsOf(r)]

\* the line the 'close' handler appends to conversion.log; req is not part of
\* the line, it records which request's handler wrote it
LogLine(r, meta) ==
    [req |-> r, time |-> now,
     filename |-> conv[r].file.filename,
     outputFilename |-> conv[r].outputFilename,
     month |-> meta.month, bank |-> meta.bank, transactions |-> meta.transactions]

\* CloseResponse with the output filename formatted anew for the answer
CloseResponseRenamed(r, meta) ==
    IF conv[r].code = 0
    THEN RespSuccess(conv[r].stdoutData,
                     formatOutputFilename(conv[r].file.filename, now),
                     meta.month, meta.bank, meta.transactions)
    ELSE RespFailure(conv[r].stderrData)

\* the answer of the 'close' handler: the test of the exit code
CloseResponse(r, meta) ==
    IF conv[r].code = 0
    THEN RespSuccess(conv[r].stdoutData, conv[r].outputFilename,
                     meta.month, meta.bank, meta.transactions)
    ELSE RespFailure(conv[r].stderrData)

\* clearTimeout(timeout)
ClearTimeout(t) == IF t = "armed" THEN "cleared" ELSE t

\* CloseWith with the append to the log moved into the success branch
CloseWithLogOnSuccess(r, appendOk, meta) ==
    /\ conv' = [conv EXCEPT ![r].python = "closed",
                            ![r].timeout = ClearTimeout(@),
                            ![r].extractions = @ + 1]
    /\ IF appendOk
       THEN /\ conversionLog' = IF conv[r].code = 0
                                THEN Append(conversionLog, LogLine(r, meta))
                                ELSE conversionLog
            /\ res' = Respond(r, CloseResponse(r, meta))
            /\ crashed' = headersSent(r)
       ELSE /\ crashed' = TRUE
            /\ UNCHANGED <<conversionLog, res>>
    /\ UNCHANGED <<uploads, outputs, now>>

CloseWith(r, appendOk, meta) ==
    /\ conv' = [conv EXCEPT ![r].python = "closed",
                            ![r].timeout = ClearTimeout(@),
                            ![r].extractions = @ + 1]
    /\ IF appendOk
       THEN /\ conversionLog' = Append(conversionLog, LogLine(r, meta))
            /\ res' = Respond(r, CloseResponse(r, meta))
            /\ crashed' = headersSent(r)
       ELSE /\ crashed' = TRUE
            /\ UNCHANGED <<conversionLog, res>>
    /\ UNCHANGED <<uploads, outputs, now>>

\* python.on('close'): emitted once the process has ended and its streams are
\* drained.  The handler clears the timer, extracts the metadata, appends the
\* log line and answers, whatever the exit code and whether or not the timer
\* has answered already.  appendOk: whether fs.appendFileSync succeeds; when it
\* throws, or when res.json throws because the headers were sent, nothing
\* catches the exception.
OnClose(r, appendOk) ==
    /\ ~crashed
    /\ conv[r].python = "exited"
    /\ conv[r].stdoutPipe = <<>> /\ conv[r].stderrPipe = <<>>
    /\ CloseWith(r, appendOk, Metadata(r))

\* a second passes on the wall clock
Tick ==
    /\ ~crashed
    /\ now < MaxTime
    /\ now' = now + 1
    /\ UNCHANGED <<conv, res, conversionLog, uploads, outputs, crashed>>

Next ==
    \/ \E r \in ReqIds, u \in Uploads : Upload(r, u)
    \/ \E r \in ReqIds : Convert(r)
    \/ \E r \in ReqIds : SpawnError(r)
    \/ \E r \in ReqIds, c \in StdoutChunks : ChildStdout(r, c)
    \/ \E r \in ReqIds, c \in StderrChunks : ChildStderr(r, c)
    \/ \E r \in ReqIds, code \in {0, 1}, t \in OutputTexts : ChildExit(r, code, t)
    \/ \E r \in ReqIds : OnStdoutData(r)
    \/ \E r \in ReqIds : OnStderrData(r)
    \/ \E r \in ReqIds : OnTimeout(r)
    \/ \E r \in ReqIds, appendOk \in BOOLEAN : OnClose(r, appendOk)
    \/ Tick

Spec == Init /\ [][Next]_vars

\* the event loop delivers every event that is due: the deadline timer runs
\* its callback unless it is cleared first, data that arrived on a pipe is
\* handed to its 'data' handler, and the 'close' event of an ended process is
\* emitted
Fairness ==
    \A r \in ReqIds :
        /\ WF_vars(OnTimeout(r))
        /\ WF_vars(OnStdoutData(r))
        /\ WF_vars(OnStderrData(r))
        /\ WF_vars(\E appendOk \in BOOLEAN : OnClose(r, appendOk))

SpecFair == Spec /\ Fairness

(***************************************************************************)
(* The 'close' handler on its own: every request state in which a 'close'  *)
(* event is due, over a wider range of converter output and file names     *)
(***************************************************************************)
\* "15.02.2024"
ChunkDate == <<"1","5",".","0","2",".","2","0","2","4">>

\* "2024-04-09"
ChunkIsoDate == <<"2","0","2","4","-","0","4","-","0","9">>

\* "2024-00-09"
ChunkBadIsoDate == <<"2","0","2","4","-","0","0","-","0","9">>

\* "11/2023"
ChunkMonthYear == <<"1","1","/","2","0","2","3">>

\* "Za okres od 01/14/2024"
ChunkBadPeriod == LitZaOkresOd \o <<"0","1","/","1","4","/","2","0","2","4">>

\* "Miesiac: Maj 2024 " and a line feed
ChunkMarker == LitMiesiac \o <<" ","M","a","j"," ","2","0","2","4"," ","LF">>

\* "Miesiac: " and a line feed: a marker with nothing behind it
ChunkEmptyMarker == LitMiesiac \o <<" ","LF">>

\* "PEKAO SA" and a line feed
ChunkBank == <<"P","E","K","A","O"," ","S","A","LF">>

MetaChunks ==
    { ChunkPeriod, ChunkBadDate, ChunkDate, ChunkIsoDate, ChunkBadIsoDate,
      ChunkMonthYear, ChunkBadPeriod, ChunkMarker, ChunkEmptyMarker, ChunkBank,
      <<" ">> }

\* the texts made of at most n chunks
RECURSIVE TextsUpTo(_)
TextsUpTo(n) ==
    IF n = 0 THEN { <<>> }
    ELSE TextsUpTo(n - 1) \cup {t \o c : t \in TextsUpTo(n - 1), c \in MetaChunks}

\* originalname "202413_x.pdf"
NameBadPrefix == <<"2","0","2","4","1","3","_","x",".","p","d","f">>

\* originalname "scan.pdf"
NamePlain == <<"s","c","a","n",".","p","d","f">>

MetaNames == {NamePrefixed, NameDiacritic, NameBadPrefix, NamePlain}

\* an output file with no :61: line
OutputNoTag == <<":","2","0",":","X","LF",":","6","2","F",":","LF">>

MetaOutputs == OutputTexts \cup {OutputNoTag, NoOutput}

\* request 1 with its converter ended and everything it wrote received
InitMeta ==
    /\ \E name \in MetaNames, text \in TextsUpTo(MaxMetaChunks),
          code \in {0, 1}, out \in MetaOutputs :
          /\ conv = [r \in ReqIds |->
                       IF r # 1 THEN IdleConv
                       ELSE [IdleConv EXCEPT
                               !.stage = "spawned",
                               !.file = [present |-> TRUE,
                                         originalname |-> name,
                                         filename |-> sanitizeFilename(name)],
                               !.outputFilename =
                                   formatOutputFilename(sanitizeFilename(name), 0),
                               !.python = "exited",
                               !.code = code,
                               !.timeout = "armed",
                               !.stdoutData = text]]
          /\ outputs = IF out = NoOutput THEN {}
                       ELSE {[name |-> formatOutputFilename(sanitizeFilename(name), 0),
                              text |-> out]}
          /\ uploads = {sanitizeFilename(name)}
    /\ res = [r \in ReqIds |-> FreshRes]
    /\ conversionLog = <<>>
    /\ now = 0
    /\ crashed = FALSE

NextMeta == \E r \in ReqIds, appendOk \in BOOLEAN : OnClose(r, appendOk)

SpecMeta == InitMeta /\ [][NextMeta]_vars

(***************************************************************************)
(* The 'close' handler on converter output that names banks, in several    *)
(* letter casings                                                          *)
(***************************************************************************)
ToUpperCase(s) == [i \in 1..Len(s) |-> ToUpperChar(s[i])]

\* the identifiers the handler knows, and the display name of each
BankIds == <<LitPKOPPLPW, LitPekao, LitBankPolska, LitSantander, LitMBank>>

BankNames == <<LitPekao, LitPekao, LitPekao, LitSantander, LitMBank>>

\* an identifier as written, in capitals, in small letters
Casings(lit) == {lit, ToUpperCase(lit), ToLowerCase(lit)}

\* the marker of the earlier variant of the handler, /Wykryty bank:\s*([^\n\r]+)/
LitWykrytyBank == <<"W","y","k","r","y","t","y"," ","b","a","n","k",":">>

\* the marker pattern tried at position i
BankMarkerAt(s, i) ==
    IF HasAt(s, i, LitWykrytyBank) THEN CaptureRest(s, i + Len(LitWykrytyBank))
    ELSE NoMatch

BankMarkerHits(s) == {i \in 1..Len(s) : BankMarkerAt(s, i).pos # 0}

\* bankMatch[1].trim() of the leftmost match, empty when there is no match
BankMarkerText(s) ==
    IF BankMarkerHits(s) = {} THEN <<>>
    ELSE Trim(BankMarkerAt(s, Min(BankMarkerHits(s))).text)

\* "Wykryty bank: ing" and a line feed
ChunkBankMarker == LitWykrytyBank \o <<" ","i","n","g","LF">>

\* "Saldo: 10" and a line feed
ChunkSaldo == <<"S","a","l","d","o",":"," ","1","0","LF">>

BankChunks ==
    UNION {Casings(BankIds[k]) : k \in 1..Len(BankIds)}
        \cup {ChunkSaldo, ChunkBankMarker}

\* the texts made of at most n bank chunks
RECURSIVE BankTextsUpTo(_)
BankTextsUpTo(n) ==
    IF n = 0 THEN { <<>> }
    ELSE BankTextsUpTo(n - 1)
             \cup {t \o c : t \in BankTextsUpTo(n - 1), c \in BankChunks}

BankFileNames == {NamePrefixed, NamePlain}

InitBank ==
    /\ \E name \in BankFileNames, text \in BankTextsUpTo(MaxBankChunks),
          code \in {0, 1} :
          /\ conv = [r \in ReqIds |->
                       IF r # 1 THEN IdleConv
                       ELSE [IdleConv EXCEPT
                               !.stage = "spawned",
                               !.file = [present |-> TRUE,
                                         originalname |-> name,
                                         filename |-> sanitizeFilename(name)],
                               !.outputFilename =
                                   formatOutputFilename(sanitizeFilename(name), 0),
                               !.python = "exited",
                               !.code = code,
                               !.timeout = "armed",
                               !.stdoutData = text]]
          /\ uploads = {sanitizeFilename(name)}
    /\ outputs = {}
    /\ res = [r \in ReqIds |-> FreshRes]
    /\ conversionLog = <<>>
    /\ now = 0
    /\ crashed = FALSE

SpecBank == InitBank /\ [][NextMeta]_vars

(***************************************************************************)
(* The 'close' handler on output files of several shapes, and on none      *)
(***************************************************************************)
\* pieces of an MT940 file: a :61: line, one behind a space and a tab, a line
\* with :61: inside, a line with :61 and no second colon, a :20: line with CR
\* and LF, a :61: with no line end behind it
OutPieces ==
    { <<":","6","1",":","A","LF">>,
      <<" ","TAB",":","6","1",":","B","LF">>,
      <<"x",":","6","1",":","LF">>,
      <<":","6","1","LF">>,
      <<":","2","0",":","CR","LF">>,
      <<":","6","1",":">> }

\* the files made of at most n pieces
RECURSIVE OutTextsUpTo(_)
OutTextsUpTo(n) ==
    IF n = 0 THEN { <<>> }
    ELSE OutTextsUpTo(n - 1)
             \cup {t \o c : t \in OutTextsUpTo(n - 1), c \in OutPieces}

\* request 1 with its converter ended; the output file is there with some text
\* (the empty text too) or is not there
InitCount ==
    /\ \E text \in OutTextsUpTo(MaxOutLines), there \in BOOLEAN, code \in {0, 1} :
          /\ conv = [r \in ReqIds |->
                       IF r # 1 THEN IdleConv
                       ELSE [IdleConv EXCEPT
                               !.stage = "spawned",
                               !.file = [present |-> TRUE,
                                         originalname |-> NamePlain,
                                         filename |-> sanitizeFilename(NamePlain)],
                               !.outputFilename =
                                   formatOutputFilename(sanitizeFilename(NamePlain), 0),
                               !.python = "exited",
                               !.code = code,
                               !.timeout = "armed"]]
          /\ outputs = IF there
                       THEN {[name |-> formatOutputFilename(sanitizeFilename(NamePlain), 0),
                              text |-> text]}
                       ELSE {}
    /\ uploads = {sanitizeFilename(NamePlain)}
    /\ res = [r \in ReqIds |-> FreshRes]
    /\ conversionLog = <<>>
    /\ now = 0
    /\ crashed = FALSE

SpecCount == InitCount /\ [][NextMeta]_vars

(***************************************************************************)
(* One upload under every short name: the storage under the sanitized      *)
(* name, and the output filename the handler derives from it               *)
(***************************************************************************)
\* code units a client can put into a filename: letters, a digit, the three
\* symbols the class admits, whitespace, letters with diacritics, a combining
\* mark on its own, a symbol outside the class
NameChars ==
    {"a", "B", "7", "_", "-", ".", " ", "TAB", "a_ogonek", "l_stroke", "U0301", "!"}

\* the names of at most n code units
RECURSIVE NamesUpTo(_)
NamesUpTo(n) ==
    IF n = 0 THEN { <<>> }
    ELSE NamesUpTo(n - 1) \cup {Append(t, c) : t \in NamesUpTo(n - 1), c \in NameChars}

NamedUploads ==
    {[present |-> TRUE, originalname |-> name, mimetype |-> MimePdf] :
        name \in NamesUpTo(MaxNameLen)}

NextNames ==
    \/ \E u \in NamedUploads : Upload(1, u)
    \/ Convert(1)

SpecNames == Init /\ [][NextNames]_vars

(***************************************************************************)
(* Properties                                                              *)
(***************************************************************************)
\* the lines of conversion.log that request r's handler appended
LinesOf(r) == {i \in 1..Len(conversionLog) : conversionLog[i].req = r}

\* the 'close' handler of r ran with the deadline timer still pending, and got
\* past the append to the log
ClosedInTime(r) ==
    /\ conv[r].python = "closed"
    /\ conv[r].timeout = "cleared"
    /\ LinesOf(r) # {}

\* C1: for every request that spawned a converter at most one terminal outcome
\* is produced: of the deadline timer and the 'close' handler, the one that
\* runs second produces no response.
C1_AtMostOneOutcome ==
    \A r \in ReqIds : conv[r].stage = "spawned" => Len(res[r].json) <= 1

\* C2: when the deadline timer fires (the process has not closed by then), the
\* converter is sent SIGKILL and is no longer running, and the response the
\* client gets is the timeout failure, then and ever after; it is never a
\* success response.
C2_TimeoutKillsAndFails ==
    \A r \in ReqIds :
        conv[r].timeout = "fired" =>
            /\ conv[r].killSent
            /\ conv[r].python # "running"
            /\ res[r].wire = <<RespTimeout>>
            /\ res[r].wire[1].status = 500 /\ ~res[r].wire[1].success

\* C2 witness: the timer fired on a running converter, which was killed, and
\* the 'close' event of the killed process has been handled since.
C2_Witness ==
    \E r \in ReqIds :
        /\ conv[r].timeout = "fired"
        /\ conv[r].python = "closed"
        /\ conv[r].code = NullCode
        /\ res[r].wire = <<RespTimeout>>

\* C3: when the process closes with exit code 0 before the deadline, the
\* response is a 200 with success true and a non-empty downloadUrl made of the
\* URL prefix and the output filename the handler computed for that request.
C3_SuccessResponse ==
    \A r \in ReqIds :
        (ClosedInTime(r) /\ conv[r].code = 0) =>
            /\ Len(res[r].wire) = 1
            /\ res[r].wire[1].status = 200
            /\ res[r].wire[1].success
            /\ res[r].wire[1].downloadUrl # <<>>
            /\ res[r].wire[1].downloadUrl = UrlPrefix \o conv[r].outputFilename
            /\ \E f \in uploads, t \in 0..MaxTime :
                   conv[r].outputFilename = formatOutputFilename(f, t)

\* C3 witness: a request answered with success after the clock moved on between
\* the spawn and the 'close' event.
C3_Witness ==
    \E r \in ReqIds :
        /\ ClosedInTime(r) /\ conv[r].code = 0
        /\ res[r].wire # <<>> /\ res[r].wire[1].status = 200
        /\ \E i \in LinesOf(r) :
               conv[r].outputFilename
                   # formatOutputFilename(conv[r].file.filename, conversionLog[i].time)

\* C4 as stated: when the process closes with a non-zero exit code, the
\* response is a 500 with success false whose error field is all the
\* standard-error text the converter wrote.
C4_FailureResponseAsStated ==
    \A r \in ReqIds :
        (conv[r].python = "closed" /\ LinesOf(r) # {} /\ conv[r].code = 1) =>
            res[r].wire = <<RespFailure(conv[r].stderrWritten)>>

\* C4 amended: when the process closes with a non-zero exit code before the
\* deadline timer has fired, the response is a 500 with success false whose
\* error field is all the standard-error text the converter wrote.
C4_FailureResponse ==
    \A r \in ReqIds :
        (ClosedInTime(r) /\ conv[r].code # 0) =>
            /\ res[r].wire = <<RespFailure(conv[r].stderrWritten)>>
            /\ res[r].wire[1].status = 500 /\ ~res[r].wire[1].success

\* C4 witness: a converter that wrote to its standard error and exited with
\* code 1 in time, its request answered.
C4_Witness ==
    \E r \in ReqIds :
        /\ ClosedInTime(r) /\ conv[r].code = 1
        /\ conv[r].stderrWritten # <<>>
        /\ res[r].wire # <<>> /\ res[r].wire[1].status = 500

\* the response of r came from the 'close' handler: the conversion succeeded
\* or failed
Completed(r) ==
    /\ res[r].wire # <<>>
    /\ res[r].wire[1] # RespTimeout
    /\ conv[r].stage = "spawned"

\* C5: every request completed by a conversion that succeeded or failed has
\* exactly one line in the audit log, and no request ever has more than one,
\* whatever the interleaving of requests, timers and 'close' events.
C5_OneLogLine ==
    \A r \in ReqIds :
        /\ Cardinality(LinesOf(r)) <= 1
        /\ Completed(r) => Cardinality(LinesOf(r)) = 1

\* C5 witness: two requests in flight together, one answered with success and
\* one with failure, the line of the later request first in the log.
C5_Witness ==
    /\ Len(conversionLog) = 2
    /\ conversionLog[1].req = 2
    /\ \A r \in {1, 2} : Completed(r)
    /\ res[1].wire[1].status # res[2].wire[1].status

\* C6: a request with no file part, or with a file part that is not declared
\* application/pdf, gets a 400-class response, spawns no converter, has no
\* upload stored and appends no line to the audit log.
C6_RejectedWith400 ==
    \A r \in ReqIds :
        conv[r].stage = "rejected" =>
            /\ res[r].wire # <<>>
            /\ res[r].wire[1].status \in 400..499
            /\ conv[r].python = "none"
            /\ ~conv[r].file.present
            /\ LinesOf(r) = {}

\* C7: once the deadline timer has fired and the timeout response is sent,
\* nothing more runs for the request: no metadata extraction, no append to the
\* audit log and no second response, also when 'close' arrives later.
C7_NothingAfterTimeout ==
    \A r \in ReqIds :
        conv[r].timeout = "fired" =>
            /\ conv[r].extractions = 0
            /\ LinesOf(r) = {}
            /\ Len(res[r].json) = 1

\* C8 as stated: the metadata extraction runs only when the converter exited
\* with code 0.
C8_ExtractionOnlyOnSuccess ==
    \A r \in ReqIds : conv[r].extractions > 0 => conv[r].code = 0

\* C8 amended: the metadata extraction runs on every 'close' event, whatever
\* the exit code: the audit line the handler appends carries the month, the
\* bank and the transaction count extracted at that moment; when the process
\* exits non-zero before the deadline, the request gets the 500 failure
\* response, which carries none of them.
C8_ExtractionOnEveryClose ==
    [][\A r \in ReqIds :
          (conv[r].python = "exited" /\ conv'[r].python = "closed") =>
              /\ conv'[r].extractions = conv[r].extractions + 1
              /\ Len(conversionLog') = Len(conversionLog) + 1 =>
                     /\ conversionLog'[Len(conversionLog')].month
                            = statementMonthOf(conv[r].stdoutData, conv[r].file.filename)
                     /\ conversionLog'[Len(conversionLog')].bank
                            = statementBankOf(conv[r].stdoutData, conv[r].file.filename)
                     /\ conversionLog'[Len(conversionLog')].transactions
                            = numberOfTransactionsOf(r)
                     /\ (conv[r].code # 0 /\ conv[r].timeout = "armed") =>
                            /\ res'[r].wire = <<RespFailure(conv[r].stderrData)>>
                            /\ DOMAIN res'[r].wire[1]
                                   = {"status", "success", "message", "error"}
      ]_vars

\* C8 witness: a converter that exited with code 1, with a month, a bank and a
\* transaction count other than the sentinels in its audit line.
C8_Witness ==
    \E r \in ReqIds :
        /\ ClosedInTime(r) /\ conv[r].code = 1
        /\ res[r].wire # <<>> /\ res[r].wire[1].status = 500
        /\ \E i \in LinesOf(r) :
               /\ conversionLog[i].month # Nieznany
               /\ conversionLog[i].bank # Nieznany
               /\ conversionLog[i].transactions > 0

\* the month number the winning date-like pattern captured from the stdout of
\* r (one of DD.MM.YYYY, YYYY-MM-DD, MM/YYYY, period-from), 1 when no date-like
\* pattern wins
CapturedMonth(s) ==
    IF WinningPattern(s) = 0 \/ monthPatterns[WinningPattern(s)] < 2 THEN 1
    ELSE WinningMatch(s, WinningPattern(s)).num

\* C9: when the winning date-like pattern captures a month number outside
\* 1..12, the statement month reported is the sentinel 'Nieznany'.
C9_BadMonthIsUnknown ==
    \A i \in 1..Len(conversionLog) :
        CapturedMonth(conv[conversionLog[i].req].stdoutData) \notin 1..12 =>
            conversionLog[i].month = Nieznany

\* C10: the period marker 'Za okres od DD/MM/YYYY' has priority over the
\* DD.MM.YYYY, YYYY-MM-DD and MM/YYYY patterns: for a text that has the period
\* marker (its month in 1..12) and no explicit statement-month marker, the month
\* reported is the one the period marker captured.
C10_PeriodMarkerFirst ==
    \A i \in 1..Len(conversionLog) :
        LET s == conv[conversionLog[i].req].stdoutData
        IN  (/\ MonthMatch(0, s).pos = 0
             /\ MonthMatch(1, s).pos = 0
             /\ MonthMatch(5, s).pos # 0
             /\ MonthMatch(5, s).num \in 1..12) =>
                conversionLog[i].month = MonthMatch(5, s).label

\* the only date-like content of s is the period marker: no statement-month
\* marker, no DD.MM.YYYY and no YYYY-MM-DD, a period marker with its month in
\* 1..12, and no MM/YYYY besides the one every period marker holds
OnlyPeriodMarker(s) ==
    /\ \A k \in 0..3 : \A i \in 1..Len(s) : ~RxAt(k, s, i)
    /\ \E p \in 1..Len(s) : Rx5At(s, p)
    /\ \A p \in 1..Len(s) :
           Rx5At(s, p) => parseInt(SubSeq(s, p + 15, p + 16)) \in 1..12
    /\ \A i \in 1..Len(s) : Rx4At(s, i) => (i > 15 /\ Rx5At(s, i - 15))

\* the Polish name of the month MM of the period marker at position p, a space
\* and its YYYY
PeriodMonth(s, p) ==
    monthNamesPL[parseInt(SubSeq(s, p + 15, p + 16))] \o <<" ">>
        \o SubSeq(s, p + 18, p + 21)

\* C11: for stdout text whose only date-like content is a period marker
\* 'Za okres od DD/MM/YYYY' with MM in 1..12, the statement month in the audit
\* line, and in the success response, is the Polish month name at table index
\* MM-1, a space and YYYY.
C11_PeriodMarkerMonth ==
    \A i \in 1..Len(conversionLog) :
        OnlyPeriodMarker(conv[conversionLog[i].req].stdoutData) =>
            /\ conversionLog[i].month
                   = PeriodMonth(conv[conversionLog[i].req].stdoutData,
                                 Min({p \in 1..Len(conv[conversionLog[i].req].stdoutData) :
                                        Rx5At(conv[conversionLog[i].req].stdoutData, p)}))
            /\ conv[conversionLog[i].req].code = 0 =>
                   res[conversionLog[i].req].wire[1].statementMonth
                       = conversionLog[i].month

\* C11 witness: stdout 'Za okres od 05/03/2024' followed by a bank line, the
\* request answered with the month 'Marzec 2024'.
C11_Witness ==
    \E r \in ReqIds :
        /\ conv[r].stdoutData = ChunkPeriod \o ChunkBank
        /\ OnlyPeriodMarker(conv[r].stdoutData)
        /\ conv[r].python = "closed" /\ conv[r].code = 0
        /\ res[r].wire # <<>>
        /\ res[r].wire[1].statementMonth
               = <<"M","a","r","z","e","c"," ","2","0","2","4">>

\* no month pattern matches s
NoMonthPattern(s) == \A k \in 0..5 : \A i \in 1..Len(s) : ~RxAt(k, s, i)

\* the month a filename with the prefix YYYYMM stands for
PrefixMonth(f) ==
    IF parseInt(SubSeq(f, 5, 6)) \in 1..12
    THEN monthNamesPL[parseInt(SubSeq(f, 5, 6))] \o <<" ">> \o SubSeq(f, 1, 4)
    ELSE Nieznany

\* C12: for stdout text that matches none of the month patterns and a stored
\* filename that begins with six digits YYYYMM, the month reported is the
\* Polish name of month MM and YYYY when MM is in 1..12, and 'Nieznany' when
\* it is not; when a stdout pattern produced a month, the month reported comes
\* from the stdout text alone, whatever the filename.
C12_FilenameFallback ==
    \A i \in 1..Len(conversionLog) :
        /\ (/\ NoMonthPattern(conv[conversionLog[i].req].stdoutData)
            /\ DigitsAt(conv[conversionLog[i].req].file.filename, 1, 6)) =>
               conversionLog[i].month
                   = PrefixMonth(conv[conversionLog[i].req].file.filename)
        /\ (/\ ~NoMonthPattern(conv[conversionLog[i].req].stdoutData)
            /\ MonthFromStdout(conv[conversionLog[i].req].stdoutData) # Nieznany) =>
               conversionLog[i].month
                   = ValidMonth(MonthFromStdout(conv[conversionLog[i].req].stdoutData))

\* C12 witness: stdout with a bank line and no date, the stored filename
\* '202407_pekao.pdf', the month reported 'Lipiec 2024'.
C12_Witness ==
    \E i \in 1..Len(conversionLog) :
        /\ conv[conversionLog[i].req].stdoutData = ChunkBank
        /\ conv[conversionLog[i].req].file.filename = NamePrefixed
        /\ conversionLog[i].month
               = <<"L","i","p","i","e","c"," ","2","0","2","4">>

\* the display names of the banks that s names with one of their identifiers,
\* in one of the casings the converter output uses
BanksIn(s) ==
    {BankNames[k] : k \in {j \in 1..Len(BankIds) :
                             \E lit \in Casings(BankIds[j]) : Contains(s, lit)}}

\* C13: for stdout text that contains a known bank identifier (PKOPPLPW,
\* Pekao, Bank Polska Kasa Opieki, Santander, mBank) in any letter casing, the
\* bank in the audit line, and in the success response, is the display name
\* ('Pekao', 'Santander' or 'mBank') of a bank the text names, whatever the
\* casing and the filename; when the text names one bank only, it is the name
\* of that bank.
C13_KnownBankCanonical ==
    \A i \in 1..Len(conversionLog) :
        BanksIn(conv[conversionLog[i].req].stdoutData) # {} =>
            /\ conversionLog[i].bank \in BanksIn(conv[conversionLog[i].req].stdoutData)
            /\ conversionLog[i].bank \in {LitPekao, LitSantander, LitMBank}
            /\ conv[conversionLog[i].req].code = 0 =>
                   res[conversionLog[i].req].wire[1].statementBank
                       = conversionLog[i].bank

\* C13 witness: stdout with 'SANTANDER' in capitals and the stored filename
\* '202407_pekao.pdf', the request answered with the bank 'Santander'.
C13_Witness ==
    \E r \in ReqIds :
        /\ conv[r].stdoutData = ChunkSaldo \o ToUpperCase(LitSantander)
        /\ conv[r].file.filename = NamePrefixed
        /\ conv[r].python = "closed" /\ conv[r].code = 0
        /\ res[r].wire # <<>>
        /\ res[r].wire[1].statementBank = <<"S","a","n","t","a","n","d","e","r">>

\* the lines of a text: what stands between line terminators
RECURSIVE LinesOfText(_, _)
LinesOfText(text, line) ==
    IF text = <<>> THEN <<line>>
    ELSE IF IsLineEnd(Head(text)) THEN <<line>> \o LinesOfText(Tail(text), <<>>)
    ELSE LinesOfText(Tail(text), Append(line, Head(text)))

\* the line begins with spaces and tabs, if any, and then :61:
Begins61(line) ==
    \E n \in 0..Len(line) :
        /\ \A j \in 1..n : line[j] \in {" ", "TAB"}
        /\ HasAt(line, n + 1, <<":","6","1",":">>)

Lines61(text) ==
    Cardinality({k \in 1..Len(LinesOfText(text, <<>>)) :
                   Begins61(LinesOfText(text, <<>>)[k])})

\* the text of the output file of r, empty when the file is not there
OutputTextOf(r) ==
    IF \E f \in outputs : f.name = conv[r].outputFilename
    THEN (CHOOSE f \in outputs : f.name = conv[r].outputFilename).text
    ELSE <<>>

\* C14: the transaction count in the audit line and in the success response is
\* the number of lines of the output file that begin with optional spaces and
\* tabs followed by ':61:'; when the file cannot be read the count is 0 and
\* the request is answered as it is with an empty file: with the success
\* response for exit code 0, with the failure response otherwise.
C14_TransactionCount ==
    \A i \in 1..Len(conversionLog) :
        /\ conversionLog[i].transactions = Lines61(OutputTextOf(conversionLog[i].req))
        /\ Len(res[conversionLog[i].req].wire) = 1
        /\ conv[conversionLog[i].req].code = 0 =>
               /\ res[conversionLog[i].req].wire[1].status = 200
               /\ res[conversionLog[i].req].wire[1].numberOfTransactions
                      = Lines61(OutputTextOf(conversionLog[i].req))
        /\ conv[conversionLog[i].req].code # 0 =>
               res[conversionLog[i].req].wire
                   = <<RespFailure(conv[conversionLog[i].req].stderrData)>>

\* C14 witness: an output file with two lines that begin with :61: (one behind
\* blanks) and one line with :61: inside, the request answered with the count 2.
C14_Witness ==
    \E r \in ReqIds :
        /\ \E f \in outputs :
               /\ f.name = conv[r].outputFilename
               /\ f.text = <<"x",":","6","1",":","LF",
                             ":","6","1",":","A","LF",
                             " ","TAB",":","6","1",":","B","LF">>
        /\ conv[r].python = "closed" /\ conv[r].code = 0
        /\ res[r].wire # <<>>
        /\ res[r].wire[1].numberOfTransactions = 2

\* C15: sanitizeFilename is idempotent: the name an upload is stored under is
\* sanitizeFilename of the name the client sent, and sanitizing it again gives
\* the same name; so the output filename, which the handler makes by sanitizing
\* the base of the stored name, starts with that base as it is.
C15_SanitizeIdempotent ==
    \A r \in ReqIds :
        conv[r].file.present =>
            /\ sanitizeFilename(sanitizeFilename(conv[r].file.originalname))
                   = sanitizeFilename(conv[r].file.originalname)
            /\ sanitizeFilename(conv[r].file.filename) = conv[r].file.filename
            /\ conv[r].stage = "spawned" =>
                   SubSeq(conv[r].outputFilename, 1,
                          Len(BaseName(conv[r].file.filename)) + 1)
                       = BaseName(conv[r].file.filename) \o <<"_">>

\* C15 witness: a name with a symbol, a letter with a diacritic and a dot was
\* stored as 'a.' and the converter spawned for it.
C15_Witness ==
    \E r \in ReqIds :
        /\ conv[r].stage = "spawned"
        /\ conv[r].file.originalname = <<"!", "a_ogonek", ".">>
        /\ conv[r].file.filename = <<"a", ".">>

\* the class of code units a sanitized name is made of
SafeAlphabet ==
    {Lower[i] : i \in 1..26} \cup {Upper[i] : i \in 1..26}
        \cup {Digits[i] : i \in 1..10} \cup {"_", "-", "."}

\* C16: for every filename, with diacritics, whitespace or symbols too, every
\* code unit of the sanitized name is an ASCII letter, a digit, an underscore,
\* a hyphen or a period; the empty name gives the empty name.
C16_SanitizeSafeOutput ==
    \A r \in ReqIds :
        conv[r].file.present =>
            /\ \A i \in 1..Len(conv[r].file.filename) :
                   conv[r].file.filename[i] \in SafeAlphabet
            /\ conv[r].file.originalname = <<>> => conv[r].file.filename = <<>>

\* C16 witness: a name of a letter with a diacritic, a space and a symbol,
\* stored as 'a_'.
C16_Witness ==
    \E r \in ReqIds :
        /\ conv[r].file.present
        /\ conv[r].file.originalname = <<"a_ogonek", " ", "!">>
        /\ conv[r].file.filename = <<"a", "_">>

\* a fault hit the handling of r: the converter could not be spawned, or the
\* 'close' handler ran and left no line in the audit log (the append threw)
Faulted(r) ==
    \/ conv[r].python = "failed"
    \/ conv[r].python = "closed" /\ LinesOf(r) = {}

\* C17: a fault inside the handling of one request (the converter failing to
\* spawn, the append to the audit log failing) gives that request a
\* server-error response and is never thrown uncaught: the server keeps
\* running.
C17_FaultsContained ==
    \A r \in ReqIds :
        Faulted(r) =>
            /\ ~crashed
            /\ res[r].wire # <<>>
            /\ res[r].wire[1].status = 500

\* C18: within one request the stages come in the order Stored, Converting,
\* Extracting, Logged, Responded: the converter is spawned only once the upload
\* is stored; the extraction runs only on the 'close' event and before any
\* response; the audit line is appended only in a step that has extracted and
\* before any response; and a response to a request with a converter is sent
\* only with the audit line appended, the timeout response apart.
C18_StagesInOrder ==
    [][\A r \in ReqIds :
          /\ (conv[r].python = "none" /\ conv'[r].python # "none") =>
                 conv[r].file.filename \in uploads
          /\ (conv'[r].extractions # conv[r].extractions) =>
                 /\ conv[r].python = "exited"
                 /\ res[r].wire = <<>>
          /\ (\E i \in 1..Len(conversionLog') :
                  i > Len(conversionLog) /\ conversionLog'[i].req = r) =>
                 /\ conv'[r].extractions = conv[r].extractions + 1
                 /\ res[r].wire = <<>>
          /\ (/\ conv[r].stage = "spawned"
              /\ res[r].wire = <<>>
              /\ res'[r].wire # <<>>
              /\ res'[r].wire[1] # RespTimeout) =>
                 \E i \in 1..Len(conversionLog') : conversionLog'[i].req = r
      ]_vars

\* C19: once the deadline timer has fired and the kill signal is sent, data of
\* the child that arrives on stdout or stderr is discarded: the buffers of the
\* request stay as they were when the timer fired.
C19_OutputAfterTimeoutDiscarded ==
    [][\A r \in ReqIds :
          (conv[r].timeout = "fired" /\ conv[r].killSent) =>
              /\ conv'[r].stdoutData = conv[r].stdoutData
              /\ conv'[r].stderrData = conv[r].stderrData
      ]_vars

\* the converter of r is spawned and its 'close' event is not yet handled
InFlight(r) == conv[r].stage = "spawned" /\ conv[r].python \in {"running", "exited"}

\* C20: no two requests in flight together use the same upload path or the
\* same output path: their stored filenames differ and their output filenames
\* differ.
C20_NoFilenameCollision ==
    \A r1, r2 \in ReqIds :
        (r1 # r2 /\ InFlight(r1) /\ InFlight(r2)) =>
            /\ conv[r1].file.filename # conv[r2].file.filename
            /\ conv[r1].outputFilename # conv[r2].outputFilename

\* what the four rules give for stdout s and the stored filename f, s naming
\* no known bank: the marker's text title-cased, or else the second '_' token
\* of the sanitized filename title-cased, or else 'Nieznany'; 'Nieznany' also
\* for a result of fewer than 2 code units
RuledBank(s, f) ==
    IF BankMarkerText(s) # <<>>
    THEN (IF Len(BankMarkerText(s)) < 2 THEN Nieznany
          ELSE TitleCase(BankMarkerText(s)))
    ELSE IF \E i \in 1..Len(sanitizeFilename(f)) : sanitizeFilename(f)[i] = "_"
    THEN (IF Len(SecondToken(sanitizeFilename(f))) < 2 THEN Nieznany
          ELSE TitleCase(SecondToken(sanitizeFilename(f))))
    ELSE Nieznany

\* C21: the bank reported follows the first rule that applies: (1) a known
\* bank literal in stdout gives its display name; (2) otherwise a line
\* 'Wykryty bank: X' in stdout gives X title-cased; (3) otherwise the second
\* '_' token of the sanitized filename, title-cased; (4) otherwise, or for a
\* result of fewer than 2 code units, 'Nieznany'.
C21_BankRuleOrder ==
    \A i \in 1..Len(conversionLog) :
        IF BanksIn(conv[conversionLog[i].req].stdoutData) # {}
        THEN conversionLog[i].bank \in BanksIn(conv[conversionLog[i].req].stdoutData)
        ELSE conversionLog[i].bank
                 = RuledBank(conv[conversionLog[i].req].stdoutData,
                             conv[conversionLog[i].req].file.filename)

\* C22: under fairness of the deadline timer and of the delivery of events,
\* every request that passed validation and spawned a converter is eventually
\* responded to, whether the child exits with 0, exits non-zero or never exits.
C22_EventuallyResponded ==
    \A r \in ReqIds :
        (conv[r].stage = "spawned" /\ conv[r].python = "running")
            ~> (res[r].wire # <<>>)

====
